---- MODULE Spec2Model ----
(***************************************************************************)
(* Direct-messaging feature: the chat service over the document store,     *)
(* the chat controller's routes and socket rooms, and the useDirectMessage *)
(* hook of the client.                                                     *)
(*                                                                         *)
(* Documents carry their _id as their position in the collection: chat c   *)
(* is chats[c], message m is messages[m].  A database call either behaves  *)
(* as the query describes or rejects as a whole before writing anything    *)
(* (the failures the service tests inject with mockingoose).               *)
(***************************************************************************)
EXTENDS Naturals, Sequences, FiniteSets

\* ------------------------------------------------------------------ bounds
\* Direct service calls made in one run.
MaxCalls == 3
\* HTTP requests made in one run by users of the API.
MaxReqs == 3
\* HTTP requests made in one run, the calls of the clients' hooks included.
MaxStarted == 4

VARIABLES
    chats,      \* ChatModel collection: sequence of [participants, messages]
    messages,   \* MessageModel collection: sequence of [msg, msgFrom]
    svc,        \* the last service call made directly, with what it returned
    rooms,      \* rooms[k]: the socket rooms connection k is in
    inbox,      \* inbox[k]: 'chatUpdate' events sent to connection k, not yet handled
    reqs,       \* addMessage requests the server is in the middle of
    res,        \* the last HTTP response sent, res.n counting the responses
    selectedChat, \* selectedChat[k]: the hook's state of that name, at client k
    sock,       \* sock[k]: socket events client k has emitted, not yet at the server
    pending,    \* pending[k]: the API calls client k is waiting on
    hookChats,  \* hookChats[k]: the hook's state chats, at client k
    newMessage, \* newMessage[k]: the hook's state of that name, at client k
    lastSelect  \* lastSelect[k]: k's latest handleChatSelect call and how it has ended

store == <<chats, messages>>

\* The state of the hook.
hook == <<selectedChat, hookChats, newMessage, lastSelect>>

client == <<selectedChat, hookChats, newMessage, lastSelect, sock, pending>>

server == <<rooms, inbox, reqs, res, client>>

vars == <<chats, messages, svc, rooms, inbox, reqs, res, selectedChat, sock, pending,
          hookChats, newMessage, lastSelect>>

\* Socket connections, one per client.
Conns == {"k1", "k2"}

\* The connections whose client runs the hook; the others are clients of the
\* socket server of another make.
Hooks == {"k1"}

\* useUserContext().user.username at each client.
UserOf == [k \in Conns |-> IF k = "k1" THEN "bob" ELSE "alice"]

\* ------------------------------------------------------------------ data
\* UserModel collection; the chat code never writes it.
Users == { [_id |-> "u1", username |-> "alice"], [_id |-> "u2", username |-> "bob"] }

UserIds == { u._id : u \in Users }

\* Well-formed object ids that clients can send; "u9" names no user.
ObjectIds == UserIds \cup {"u9"}

\* Usernames a caller can pass; "carol" names no user.
Usernames == { u.username : u \in Users } \cup {"carol"}

Hi == [msg |-> "hi", msgFrom |-> "alice"]

Yo == [msg |-> "yo", msgFrom |-> "bob"]

\* Message bodies a caller can post.
MessageData == {Hi, Yo}

Range(s) == { s[i] : i \in DOMAIN s }

IsError(r) == "error" \in DOMAIN r

\* ------------------------------------------------------------------ ORM
\* Query.populate('messages'): each id is replaced by its document, and
\* ids that name no document are dropped from the array.
RECURSIVE PopulateMessages(_, _)
PopulateMessages(msgs, ids) ==
    IF ids = <<>> THEN <<>>
    ELSE LET m == Head(ids)
             rest == PopulateMessages(msgs, Tail(ids))
         IN IF m \in DOMAIN msgs
            THEN <<[_id |-> m, msg |-> msgs[m].msg, msgFrom |-> msgs[m].msgFrom]>> \o rest
            ELSE rest

\* A chat document as a query with .populate('messages') returns it.
ChatDoc(chs, msgs, c) ==
    [_id |-> c,
     participants |-> chs[c].participants,
     messages |-> PopulateMessages(msgs, chs[c].messages)]

\* UserModel.findOne({ username })
FindUserByUsername(name) == { u \in Users : u.username = name }

\* ------------------------------------------------------------------ service
\* saveChat, lines 595-603: a participant that is a username is replaced by
\* that user's _id; anything else is kept as it came.
ParticipantId(participant) ==
    IF FindUserByUsername(participant) # {}
    THEN (CHOOSE u \in FindUserByUsername(participant) : TRUE)._id
    ELSE participant

\* As ParticipantIds, but a participant that is no username is left out.
RECURSIVE ParticipantIdsKnownOnly(_)
ParticipantIdsKnownOnly(participants) ==
    IF participants = <<>> THEN <<>>
    ELSE (IF FindUserByUsername(Head(participants)) # {}
          THEN <<ParticipantId(Head(participants))>> ELSE <<>>)
         \o ParticipantIdsKnownOnly(Tail(participants))

ParticipantIds(participants) ==
    [i \in DOMAIN participants |-> ParticipantId(participants[i])]

\* db = [step |-> "ok"] or the database call that rejects or yields null:
\* "findOne" (a user lookup), "message" (MessageModel.create of payload
\* message db.at), "chat" (ChatModel.create), "findById" (the read back).
saveChat(chs, msgs, chatPayload, db) ==
    LET n == Len(chatPayload.messages)
        made == IF db.step = "findOne" THEN 0
                ELSE IF db.step = "message" THEN db.at - 1 ELSE n
        msgs2 == msgs \o SubSeq(chatPayload.messages, 1, made)
        messageIds == [i \in 1..n |-> Len(msgs) + i]
        chatData == [participants |-> ParticipantIds(chatPayload.participants),
                     messages |-> messageIds]
        chs2 == Append(chs, chatData)
    IN IF db.step \in {"findOne", "message", "chat"}
       THEN [chats |-> chs, messages |-> msgs2,
             result |-> [error |-> "Error occurred when saving chat"]]
       ELSE IF db.step = "findById"
       THEN [chats |-> chs2, messages |-> msgs2,
             result |-> [error |-> "Error occurred when saving chat"]]
       ELSE [chats |-> chs2, messages |-> msgs2,
             result |-> ChatDoc(chs2, msgs2, Len(chs2))]

\* As createMessage, without the check of a null result: null is returned as
\* it came.
createMessageNoNullCheck(msgs, messageData, db) ==
    IF db = "ok"
    THEN LET msgs2 == Append(msgs, messageData)
         IN [messages |-> msgs2,
             result |-> [_id |-> Len(msgs2), msg |-> messageData.msg,
                         msgFrom |-> messageData.msgFrom]]
    ELSE IF db = "null"
    THEN [messages |-> msgs, result |-> [null |-> TRUE]]
    ELSE [messages |-> msgs,
          result |-> [error |-> "Error occurred when creating message"]]

\* db: "ok", "throws" (create rejects) or "null" (create yields nothing).
createMessage(msgs, messageData, db) ==
    IF db = "ok"
    THEN LET msgs2 == Append(msgs, messageData)
         IN [messages |-> msgs2,
             result |-> [_id |-> Len(msgs2), msg |-> messageData.msg,
                         msgFrom |-> messageData.msgFrom]]
    ELSE [messages |-> msgs,
          result |-> [error |-> "Error occurred when creating message"]]

\* As addMessageToChat, without {new: true}: the chat is returned as it was
\* before the update.
addMessageToChatReturnsOld(chs, msgs, chatId, messageId, db) ==
    IF db = "ok" /\ chatId \in DOMAIN chs
    THEN LET chs2 == [chs EXCEPT ![chatId].messages = Append(@, messageId)]
         IN [chats |-> chs2, result |-> ChatDoc(chs, msgs, chatId)]
    ELSE [chats |-> chs,
          result |-> [error |-> "Error occurred when adding message to chat"]]

\* As addMessageToChat, with the array read, extended and written back
\* ($set) by a caller that had read it empty, in the place of $push.
addMessageToChatOverwrites(chs, msgs, chatId, messageId, db) ==
    IF db = "ok" /\ chatId \in DOMAIN chs
    THEN LET chs2 == [chs EXCEPT ![chatId].messages = <<messageId>>]
         IN [chats |-> chs2, result |-> ChatDoc(chs2, msgs, chatId)]
    ELSE [chats |-> chs,
          result |-> [error |-> "Error occurred when adding message to chat"]]

\* findByIdAndUpdate(chatId, {$push: {messages: messageId}}, {new: true})
addMessageToChat(chs, msgs, chatId, messageId, db) ==
    IF db = "ok" /\ chatId \in DOMAIN chs
    THEN LET chs2 == [chs EXCEPT ![chatId].messages = Append(@, messageId)]
         IN [chats |-> chs2, result |-> ChatDoc(chs2, msgs, chatId)]
    ELSE [chats |-> chs,
          result |-> [error |-> "Error occurred when adding message to chat"]]

getChat(chs, msgs, chatId, db) ==
    IF db = "ok" /\ chatId \in DOMAIN chs
    THEN ChatDoc(chs, msgs, chatId)
    ELSE [error |-> "Error occurred when retrieving chat"]

\* { participants: { $all: ids } }: every id is among the participants; an
\* empty $all matches no document.
MatchesAll(chat, ids) == ids # {} /\ ids \subseteq Range(chat.participants)

RECURSIVE FindChats(_, _, _, _)
FindChats(chs, msgs, ids, c) ==
    IF c > Len(chs) THEN <<>>
    ELSE (IF MatchesAll(chs[c], ids) THEN <<ChatDoc(chs, msgs, c)>> ELSE <<>>)
         \o FindChats(chs, msgs, ids, c + 1)

getChatsByParticipants(chs, msgs, p, db) ==
    LET users == { u \in Users : u.username \in Range(p) }
        participantIds == { u._id : u \in users }
    IN IF db # "ok" THEN <<>>
       ELSE IF Cardinality(users) # Len(p) THEN <<>>
       ELSE FindChats(chs, msgs, participantIds, 1)

\* $push in the place of $addToSet.
Push(s, x) == Append(s, x)

\* $addToSet: the value is appended unless the array already holds it.
AddToSet(s, x) == IF x \in Range(s) THEN s ELSE Append(s, x)

\* db: "ok", "findUser" (UserModel.findById rejects), "update"
\* (findByIdAndUpdate rejects).
addParticipantToChat(chs, msgs, chatId, userId, db) ==
    IF db = "ok" /\ userId \in UserIds /\ chatId \in DOMAIN chs
    THEN LET chs2 == [chs EXCEPT ![chatId].participants = AddToSet(@, userId)]
         IN [chats |-> chs2, result |-> ChatDoc(chs2, msgs, chatId)]
    ELSE [chats |-> chs,
          result |-> [error |-> "Error occurred when adding participant to chat"]]

\* ------------------------------------------------------------------ controller
\* populateDocument(id, 'chat') of utils/database.util: the stored chat with
\* its messages populated, or an error value.
populateDocument(chs, msgs, id, db) ==
    IF db = "ok" /\ id \in DOMAIN chs
    THEN ChatDoc(chs, msgs, id)
    ELSE [error |-> "Error when fetching and populating a document"]

\* A request is a record of its params and its body; a field that is
\* undefined, and a param that is the empty string, is absent from its record.
isCreateChatRequestValid(body) ==
    /\ "participants" \in DOMAIN body
    /\ Len(body.participants) > 0
    /\ "messages" \in DOMAIN body

\* The validation without the test req.body.msg !== ''.
isAddMessageRequestValidEmptyMsg(req) ==
    /\ "msg" \in DOMAIN req.body
    /\ "msgFrom" \in DOMAIN req.body
    /\ "chatId" \in DOMAIN req.params

isAddMessageRequestValid(req) ==
    /\ "msg" \in DOMAIN req.body
    /\ req.body.msg # ""
    /\ "msgFrom" \in DOMAIN req.body
    /\ "chatId" \in DOMAIN req.params

isAddParticipantRequestValid(req) ==
    /\ "participantId" \in DOMAIN req.body
    /\ "chatId" \in DOMAIN req.params

\* socket.to(chatId).emit(...) in the place of socket.emit(...).
RoomOnly(rms, chatId) == { k \in Conns : chatId \in rms[k] }

\* socket.emit(...): every connection.
CreatedTargets(rms, chatId) == Conns

\* socket.emit(...) in the place of socket.to(chatId).emit(...).
EveryConnection(rms, chatId) == Conns

\* socket.to(chatId).emit(...): the connections in room chatId.
NewMessageTargets(rms, chatId) == { k \in Conns : chatId \in rms[k] }

Emit(inb, targets, ev) ==
    [k \in Conns |-> IF k \in targets THEN Append(inb[k], ev) ELSE inb[k]]

\* The argument of a socket event: [chatId |-> c], or [none |-> TRUE] for
\* undefined or the empty string.
Truthy(arg) == "chatId" \in DOMAIN arg

\* A 'joinChat' that the server lets pass.
JoinChatIgnored(rms, k, arg) == rms

\* conn.on('joinChat')
JoinChat(rms, k, arg) ==
    IF Truthy(arg) THEN [rms EXCEPT ![k] = @ \cup {arg.chatId}] ELSE rms

\* conn.on('leaveChat')
LeaveChat(rms, k, arg) ==
    IF Truthy(arg) THEN [rms EXCEPT ![k] = @ \ {arg.chatId}] ELSE rms

Remove(s, i) == SubSeq(s, 1, i - 1) \o SubSeq(s, i + 1, Len(s))

\* Requests made so far.
RECURSIVE Sum(_, _)
Sum(f, S) ==
    IF S = {} THEN 0
    ELSE LET x == CHOOSE y \in S : TRUE IN f[x] + Sum(f, S \ {x})

Waiting(k) == Cardinality({ i \in DOMAIN pending[k] : pending[k][i].st = "sent" })

Started == res.n + Len(reqs) + Sum([k \in Conns |-> Waiting(k)], Conns)

\* res.status(status).json(body) or .send(body), res.req being the request.
Respond(req, route, status, body) ==
    [n |-> res.n + 1, req |-> req, route |-> route, status |-> status, body |-> body]

\* Ids a request or a socket event can name as a chat; a chat is stored under
\* an id only once it has been created.
RoomIds == {1, 2}

CreateChatBodies ==
    { [participants |-> <<"u1", "u2">>, messages |-> <<>>],
      [participants |-> <<>>, messages |-> <<>>],
      [messages |-> <<>>] }

AddMessageBodies ==
    { [msg |-> "hi", msgFrom |-> "alice"],
      [msg |-> "", msgFrom |-> "bob"],
      [msg |-> "hi"] }

\* Requests of POST /:chatId/addMessage that any user of the API makes.
AddMessageRequests ==
    { [params |-> [chatId |-> c], body |-> [msg |-> "hi", msgFrom |-> "alice"]] :
        c \in RoomIds }
    \cup { [params |-> [chatId |-> 1], body |-> b] : b \in AddMessageBodies }
    \cup { [params |-> [none |-> TRUE], body |-> [msg |-> "hi", msgFrom |-> "alice"]] }

AddParticipantRequests ==
    { [params |-> [chatId |-> 1], body |-> [participantId |-> "u2"]],
      [params |-> [chatId |-> 2], body |-> [participantId |-> "u9"]],
      [params |-> [none |-> TRUE], body |-> [participantId |-> "u1"]],
      [params |-> [chatId |-> 1], body |-> [none |-> TRUE]] }

\* Requests of GET /getChatsByUser/:username that any user of the API makes.
GetChatsByUserRequests ==
    { [params |-> [username |-> "alice"]],
      [params |-> [username |-> "carol"]],
      [params |-> [none |-> TRUE]] }

\* The calls of op that the clients have made and the server has not begun
\* to serve: call i of client from.
Sent(op) ==
    UNION { { [from |-> k, i |-> i, req |-> pending[k][i].req] :
                i \in { j \in DOMAIN pending[k] :
                          pending[k][j].op = op /\ pending[k][j].st = "sent" } } :
            k \in Conns }

\* The requests a route can be serving: one of any user of the API, or a
\* client's call.
Calls(requests, op) ==
    { [from |-> "any", i |-> 0, req |-> r] : r \in requests } \cup Sent(op)

\* The client's call gets its outcome: the response, as the functions of
\* services/chatService hand it on (a status other than 200 is thrown).
Settle(pend, call, outcome) ==
    IF call.from \in Conns
    THEN [pend EXCEPT ![call.from][call.i] = outcome]
    ELSE pend

\* The call of a client that an addMessage request under way is serving.
CallOf(rq) ==
    [from |-> rq.from, req |-> rq.req,
     i |-> IF rq.from \in Conns
           THEN CHOOSE j \in DOMAIN pending[rq.from] :
                    /\ pending[rq.from][j].op = "sendMessage"
                    /\ pending[rq.from][j].st = "inflight"
                    /\ pending[rq.from][j].messageId = rq.messageId
           ELSE 0]

\* POST /createChat
createChatRoute ==
    /\ Started < MaxReqs
    /\ \E body \in CreateChatBodies :
       \E db \in {[step |-> "ok"], [step |-> "chat"]} : \E pdb \in {"ok", "throws"} :
        LET req == [body |-> body]
        IN IF ~isCreateChatRequestValid(body)
           THEN /\ res' = Respond(req, "createChat", 400,
                                  [text |-> "Invalid chat request body"])
                /\ UNCHANGED <<chats, messages, inbox>>
           ELSE LET r == saveChat(chats, messages, body, db)
                    populatedResult ==
                        populateDocument(r.chats, r.messages, r.result._id, pdb)
                IN /\ chats' = r.chats
                   /\ messages' = r.messages
                   /\ IF IsError(r.result)
                      THEN /\ res' = Respond(req, "createChat", 500, r.result)
                           /\ UNCHANGED inbox
                      ELSE IF IsError(populatedResult)
                      THEN /\ res' = Respond(req, "createChat", 500, populatedResult)
                           /\ UNCHANGED inbox
                      ELSE /\ inbox' = Emit(inbox, CreatedTargets(rooms, r.result._id),
                                            [chat |-> populatedResult, type |-> "created"])
                           /\ res' = Respond(req, "createChat", 200, populatedResult)
    /\ UNCHANGED <<svc, rooms, reqs, client>>

\* POST /:chatId/addMessage, up to the creation of the message.
addMessageRouteCreate ==
    /\ \E call \in Calls(AddMessageRequests, "sendMessage") : \E db \in {"ok", "throws"} :
        LET req == call.req
            failed == [op |-> "sendMessage", st |-> "failed"]
        IN /\ call.from = "any" => Started < MaxReqs
           /\ IF ~isAddMessageRequestValid(req)
              THEN /\ res' = Respond(req, "addMessage", 400,
                                     [text |-> "Invalid message request body"])
                   /\ pending' = Settle(pending, call, failed)
                   /\ UNCHANGED <<messages, reqs>>
              ELSE LET messageData == [msg |-> req.body.msg, msgFrom |-> req.body.msgFrom]
                       r == createMessage(messages, messageData, db)
                   IN /\ messages' = r.messages
                      /\ IF IsError(r.result)
                         THEN /\ res' = Respond(req, "addMessage", 500, r.result)
                              /\ pending' = Settle(pending, call, failed)
                              /\ UNCHANGED reqs
                         ELSE /\ reqs' = Append(reqs,
                                    [pc |-> "addMessageToChat", from |-> call.from,
                                     req |-> req, chatId |-> req.params.chatId,
                                     messageId |-> r.result._id])
                              /\ pending' = Settle(pending, call,
                                    [op |-> "sendMessage", st |-> "inflight",
                                     messageId |-> r.result._id])
                              /\ UNCHANGED res
    /\ UNCHANGED <<svc, chats, rooms, inbox, hook, sock>>

\* ... the update of the chat ...
addMessageRoutePush ==
    /\ \E i \in DOMAIN reqs : \E db \in {"ok", "throws"} :
        /\ reqs[i].pc = "addMessageToChat"
        /\ LET r == addMessageToChat(chats, messages, reqs[i].chatId, reqs[i].messageId, db)
           IN /\ chats' = r.chats
              /\ IF IsError(r.result)
                 THEN /\ res' = Respond(reqs[i].req, "addMessage", 500, r.result)
                      /\ reqs' = Remove(reqs, i)
                      /\ pending' = Settle(pending, CallOf(reqs[i]),
                                           [op |-> "sendMessage", st |-> "failed"])
                 ELSE /\ reqs' = [reqs EXCEPT ![i] =
                                    [pc |-> "populateDocument", from |-> reqs[i].from,
                                     req |-> reqs[i].req, chatId |-> reqs[i].chatId,
                                     messageId |-> reqs[i].messageId,
                                     chatResult |-> r.result]]
                      /\ UNCHANGED <<res, pending>>
    /\ UNCHANGED <<svc, messages, rooms, inbox, hook, sock>>

\* ... and the population, the emit to the room and the response.
addMessageRouteEmit ==
    /\ \E i \in DOMAIN reqs : \E db \in {"ok", "throws"} :
        /\ reqs[i].pc = "populateDocument"
        /\ LET chatResult == reqs[i].chatResult
               populatedResult == populateDocument(chats, messages, chatResult._id, db)
           IN IF IsError(populatedResult)
              THEN /\ res' = Respond(reqs[i].req, "addMessage", 500, populatedResult)
                   /\ pending' = Settle(pending, CallOf(reqs[i]),
                                        [op |-> "sendMessage", st |-> "failed"])
                   /\ UNCHANGED inbox
              ELSE /\ inbox' = Emit(inbox, NewMessageTargets(rooms, reqs[i].chatId),
                                    [chat |-> chatResult, type |-> "newMessage"])
                   /\ res' = Respond(reqs[i].req, "addMessage", 200, chatResult)
                   /\ pending' = Settle(pending, CallOf(reqs[i]),
                                        [op |-> "sendMessage", st |-> "fetched",
                                         chat |-> chatResult])
        /\ reqs' = Remove(reqs, i)
    /\ UNCHANGED <<svc, chats, messages, rooms, hook, sock>>

\* POST /:chatId/addParticipant
addParticipantToChatRoute ==
    /\ Started < MaxReqs
    /\ \E req \in AddParticipantRequests : \E db \in {"ok", "update"} :
        IF ~isAddParticipantRequestValid(req)
        THEN /\ res' = Respond(req, "addParticipant", 400,
                               [text |-> "Invalid participant request body"])
             /\ UNCHANGED chats
        ELSE LET r == addParticipantToChat(chats, messages, req.params.chatId,
                                           req.body.participantId, db)
             IN /\ chats' = r.chats
                /\ IF IsError(r.result)
                   THEN res' = Respond(req, "addParticipant", 500, r.result)
                   ELSE res' = Respond(req, "addParticipant", 200, r.result)
    /\ UNCHANGED <<svc, messages, rooms, inbox, reqs, client>>

\* The loop of getChatsByUserRoute with a failed population dropped from the
\* list in the place of the throw.
populateChatsSkipping(chs, msgs, list, fail) ==
    LET docs == [i \in DOMAIN list |->
                    populateDocument(chs, msgs, list[i]._id,
                                     IF i = fail THEN "throws" ELSE "ok")]
    IN [populatedChats |-> SelectSeq(docs, LAMBDA d : ~IsError(d))]

\* The loop of getChatsByUserRoute over the chats found: the populated
\* chats, or the error thrown at the first population that fails.  fail is
\* the position of the chat whose population fails, 0 if none does.
populateChats(chs, msgs, list, fail) ==
    LET docs == [i \in DOMAIN list |->
                    populateDocument(chs, msgs, list[i]._id,
                                     IF i = fail THEN "throws" ELSE "ok")]
    IN IF \E i \in DOMAIN docs : IsError(docs[i])
       THEN [error |-> "Failed populating chats"]
       ELSE [populatedChats |-> docs]

\* GET /getChatsByUser/:username
getChatsByUserRoute ==
    /\ \E call \in Calls(GetChatsByUserRequests, "getChatsByUser") :
       \E db \in {"ok", "throws"} : \E fail \in 0..Len(chats) :
        LET req == call.req
            failed == [op |-> "getChatsByUser", st |-> "failed"]
        IN /\ call.from = "any" => Started < MaxReqs
           /\ IF "username" \notin DOMAIN req.params
              THEN /\ res' = Respond(req, "getChatsByUser", 400,
                                     [text |-> "Username is required"])
                   /\ pending' = Settle(pending, call, failed)
              ELSE LET list == getChatsByParticipants(chats, messages,
                                                      <<req.params.username>>, db)
                       r == populateChats(chats, messages, list, fail)
                   IN IF IsError(r)
                      THEN /\ res' = Respond(req, "getChatsByUser", 500, r)
                           /\ pending' = Settle(pending, call, failed)
                      ELSE /\ res' = Respond(req, "getChatsByUser", 200, r.populatedChats)
                           /\ pending' = Settle(pending, call,
                                    [op |-> "getChatsByUser", st |-> "fetched",
                                     chats |-> r.populatedChats])
    /\ UNCHANGED <<svc, chats, messages, rooms, inbox, reqs, hook, sock>>

SocketArgs == { [chatId |-> c] : c \in RoomIds } \cup { [none |-> TRUE] }

\* A connection's 'joinChat' event reaches the server.
onJoinChat ==
    /\ \E k \in Conns : \E arg \in SocketArgs : rooms' = JoinChat(rooms, k, arg)
    /\ UNCHANGED <<svc, chats, messages, inbox, reqs, res, client>>

\* A connection's 'leaveChat' event reaches the server.
onLeaveChat ==
    /\ \E k \in Conns : \E arg \in SocketArgs : rooms' = LeaveChat(rooms, k, arg)
    /\ UNCHANGED <<svc, chats, messages, inbox, reqs, res, client>>

\* A connection takes the oldest event sent to it.
takeUpdate ==
    /\ \E k \in Conns : /\ inbox[k] # <<>>
                        /\ inbox' = [inbox EXCEPT ![k] = Tail(@)]
    /\ UNCHANGED <<svc, chats, messages, rooms, reqs, res, client>>

\* ------------------------------------------------------------------ client hook
\* useState<Chat | null>(null)
NoChat == [null |-> TRUE]

\* selectedChat?._id
HasId(chat) == "_id" \in DOMAIN chat

\* What the user can have typed into the message box.
Texts == {"", " ", "hi"}

\* The text as it is, in the place of its trimmed form.
untrimmed(s) == s

\* String.prototype.trim, on Texts.
trim(s) == IF s = " " THEN "" ELSE s

\* The user types: setNewMessage(text).
setNewMessage ==
    /\ \E k \in Hooks : \E text \in Texts :
        /\ text # newMessage[k]
        /\ newMessage' = [newMessage EXCEPT ![k] = text]
    /\ UNCHANGED <<svc, chats, messages, rooms, inbox, reqs, res, selectedChat, sock,
                   pending, hookChats, lastSelect>>

\* The effect's dependency selectedChat?._id has changed.
IdChanged(old, new) ==
    \/ HasId(old) # HasId(new)
    \/ HasId(old) /\ HasId(new) /\ new._id # old._id

\* The cleanup of the effect, which runs when selectedChat?._id has changed:
\* 'leaveChat' for the chat that was selected.
EffectCleanup(old, new) ==
    IF HasId(old) /\ (~HasId(new) \/ new._id # old._id)
    THEN <<[ev |-> "leaveChat", arg |-> [chatId |-> old._id]]>>
    ELSE <<>>

\* The effect, which runs again when selectedChat?._id has changed: fetchChats
\* calls getChatsByUser(user.username).
Effect(k, old, new) ==
    IF IdChanged(old, new)
    THEN <<[op |-> "getChatsByUser", st |-> "sent",
            req |-> [params |-> [username |-> UserOf[k]]]]>>
    ELSE <<>>

\* The effect as it runs while no chat is selected (on mount): fetchChats up
\* to its await.
fetchChats ==
    /\ Started < MaxStarted
    /\ \E k \in Hooks :
        /\ ~HasId(selectedChat[k])
        /\ pending' = [pending EXCEPT ![k] = @ \o Effect(k, [_id |-> 0], NoChat)]
    /\ UNCHANGED <<svc, chats, messages, rooms, inbox, reqs, res, hook, sock>>

\* fetchChats after its await: setChats(userChats), or setChats([]) when the
\* call failed.
fetchChatsResume ==
    /\ \E k \in Hooks : \E i \in DOMAIN pending[k] :
        /\ pending[k][i].op = "getChatsByUser"
        /\ pending[k][i].st \in {"fetched", "failed"}
        /\ pending' = [pending EXCEPT ![k] = Remove(@, i)]
        /\ hookChats' = [hookChats EXCEPT ![k] =
                            IF pending[k][i].st = "fetched"
                            THEN pending[k][i].chats ELSE <<>>]
    /\ UNCHANGED <<svc, chats, messages, rooms, inbox, reqs, res, selectedChat, sock,
                   newMessage, lastSelect>>

\* handleSendMessage up to its await: nothing for a blank message or without
\* a selected chat, else a call of sendMessage goes out.
handleSendMessage ==
    /\ \E k \in Hooks :
        IF trim(newMessage[k]) = "" \/ ~HasId(selectedChat[k])
        THEN UNCHANGED pending
        ELSE /\ Started < MaxStarted
             /\ pending' = [pending EXCEPT ![k] = Append(@,
                    [op |-> "sendMessage", st |-> "sent",
                     req |-> [params |-> [chatId |-> selectedChat[k]._id],
                              body |-> [msg |-> newMessage[k],
                                        msgFrom |-> UserOf[k]]]])]
    /\ UNCHANGED <<svc, chats, messages, rooms, inbox, reqs, res, hook, sock>>

\* handleSendMessage after its await: the returned chat becomes selectedChat
\* and the message box is emptied; a failed call is logged only.
handleSendMessageResume ==
    /\ \E k \in Hooks : \E i \in DOMAIN pending[k] :
        /\ pending[k][i].op = "sendMessage"
        /\ pending[k][i].st \in {"fetched", "failed"}
        /\ IF pending[k][i].st = "fetched"
           THEN LET updatedChat == pending[k][i].chat
                IN /\ selectedChat' = [selectedChat EXCEPT ![k] = updatedChat]
                   /\ newMessage' = [newMessage EXCEPT ![k] = ""]
                   /\ sock' = [sock EXCEPT ![k] =
                                @ \o EffectCleanup(selectedChat[k], updatedChat)]
                   /\ pending' = [pending EXCEPT ![k] =
                                    Remove(@, i) \o Effect(k, selectedChat[k], updatedChat)]
           ELSE /\ pending' = [pending EXCEPT ![k] = Remove(@, i)]
                /\ UNCHANGED <<selectedChat, newMessage, sock>>
    /\ UNCHANGED <<svc, chats, messages, rooms, inbox, reqs, res, hookChats, lastSelect>>

\* handleChatSelect up to its await: nothing for an undefined or empty chatID,
\* else a call of getChatById(chatID) goes out.
handleChatSelect ==
    /\ \E k \in Hooks : \E chatID \in SocketArgs :
        IF ~Truthy(chatID)
        THEN UNCHANGED <<pending, lastSelect>>
        ELSE /\ Started < MaxStarted
             /\ pending' = [pending EXCEPT ![k] = Append(@,
                    [op |-> "getChatById", chatID |-> chatID.chatId, st |-> "sent"])]
             /\ lastSelect' = [lastSelect EXCEPT ![k] =
                                [chatID |-> chatID.chatId, st |-> "pending"]]
    /\ UNCHANGED <<svc, chats, messages, rooms, inbox, reqs, res, selectedChat, sock,
                   hookChats, newMessage>>

\* GET /:chatId, answering a client's getChatById.
getChatRoute ==
    /\ \E k \in Conns : \E i \in DOMAIN pending[k] :
       \E db \in {"ok", "throws"} : \E pdb \in {"ok", "throws"} :
        /\ pending[k][i].op = "getChatById"
        /\ pending[k][i].st = "sent"
        /\ LET chatId == pending[k][i].chatID
               req == [params |-> [chatId |-> chatId]]
               chatResult == getChat(chats, messages, chatId, db)
               populatedResult == populateDocument(chats, messages, chatId, pdb)
               failed == [op |-> "getChatById", chatID |-> chatId, st |-> "failed"]
           IN IF IsError(chatResult)
              THEN /\ res' = Respond(req, "getChat", 500, chatResult)
                   /\ pending' = [pending EXCEPT ![k][i] = failed]
              ELSE IF IsError(populatedResult)
              THEN /\ res' = Respond(req, "getChat", 500, populatedResult)
                   /\ pending' = [pending EXCEPT ![k][i] = failed]
              ELSE /\ res' = Respond(req, "getChat", 200, populatedResult)
                   /\ pending' = [pending EXCEPT ![k][i] =
                                    [op |-> "getChatById", chatID |-> chatId,
                                     st |-> "fetched", chat |-> populatedResult]]
    /\ UNCHANGED <<svc, chats, messages, rooms, inbox, reqs, hook, sock>>

\* Call i of client k is its latest handleChatSelect call.
IsLatest(k, i) ==
    /\ lastSelect[k].st = "pending"
    /\ \A j \in DOMAIN pending[k] : j > i => pending[k][j].op # "getChatById"

\* handleChatSelect after its await: the fetched chat becomes selectedChat and
\* handleJoinChat(chatID) emits 'joinChat'; a failed fetch is logged only.
handleChatSelectResume ==
    /\ \E k \in Hooks : \E i \in DOMAIN pending[k] :
        /\ pending[k][i].op = "getChatById"
        /\ pending[k][i].st \in {"fetched", "failed"}
        /\ IF pending[k][i].st = "fetched"
           THEN LET chat == pending[k][i].chat
                IN /\ selectedChat' = [selectedChat EXCEPT ![k] = chat]
                   /\ sock' = [sock EXCEPT ![k] =
                                @ \o <<[ev |-> "joinChat",
                                        arg |-> [chatId |-> pending[k][i].chatID]]>>
                                  \o EffectCleanup(selectedChat[k], chat)]
                   /\ pending' = [pending EXCEPT ![k] =
                                    Remove(@, i) \o Effect(k, selectedChat[k], chat)]
           ELSE /\ pending' = [pending EXCEPT ![k] = Remove(@, i)]
                /\ UNCHANGED <<selectedChat, sock>>
        /\ lastSelect' = IF IsLatest(k, i)
                         THEN [lastSelect EXCEPT ![k].st =
                                 IF pending[k][i].st = "fetched"
                                 THEN "selected" ELSE "failed"]
                         ELSE lastSelect
    /\ UNCHANGED <<svc, chats, messages, rooms, inbox, reqs, res, hookChats, newMessage>>

\* The server handles the oldest socket event of a connection.
serveSocket ==
    /\ \E k \in Conns :
        /\ sock[k] # <<>>
        /\ sock' = [sock EXCEPT ![k] = Tail(@)]
        /\ rooms' = IF Head(sock[k]).ev = "joinChat"
                    THEN JoinChat(rooms, k, Head(sock[k]).arg)
                    ELSE LeaveChat(rooms, k, Head(sock[k]).arg)
    /\ UNCHANGED <<svc, chats, messages, inbox, reqs, res, hook, pending>>

\* The updater with the chat put at the end whether or not the list has it.
AppendAlways(prevChats, chat) == Append(prevChats, chat)

\* The updater of setChats for 'created': the chat goes to the end of the
\* list unless a chat of the list has its _id.
AppendIfNew(prevChats, chat) ==
    LET exists == \E j \in DOMAIN prevChats : prevChats[j]._id = chat._id
    IN IF exists THEN prevChats ELSE Append(prevChats, chat)

\* The updater with a chat that the list does not have put at its end.
ReplaceOrAppend(prevChats, chat) ==
    IF \E j \in DOMAIN prevChats : prevChats[j]._id = chat._id
    THEN [j \in DOMAIN prevChats |->
            IF prevChats[j]._id = chat._id THEN chat ELSE prevChats[j]]
    ELSE Append(prevChats, chat)

\* The updater of setChats for 'newMessage': prevChats.map(...), the chat in
\* the place of each chat of the list that has its _id.
ReplaceById(prevChats, chat) ==
    [j \in DOMAIN prevChats |->
        IF prevChats[j]._id = chat._id THEN chat ELSE prevChats[j]]

\* socket.on('chatUpdate', handleChatUpdate), on the oldest event sent to k.
handleChatUpdate ==
    /\ \E k \in Hooks :
        /\ inbox[k] # <<>>
        /\ inbox' = [inbox EXCEPT ![k] = Tail(@)]
        /\ LET chat == Head(inbox[k]).chat
               type == Head(inbox[k]).type
           IN IF type = "created"
              THEN /\ hookChats' = [hookChats EXCEPT ![k] = AppendIfNew(@, chat)]
                   /\ UNCHANGED selectedChat
              ELSE /\ selectedChat' =
                        IF HasId(selectedChat[k]) /\ selectedChat[k]._id = chat._id
                        THEN [selectedChat EXCEPT ![k] = chat]
                        ELSE selectedChat
                   /\ hookChats' = [hookChats EXCEPT ![k] = ReplaceById(@, chat)]
    /\ UNCHANGED <<svc, chats, messages, rooms, reqs, res, sock, pending, newMessage,
                   lastSelect>>

\* ------------------------------------------------------------------ direct calls
\* Each action is one call of an exported service function on the store as it
\* stands, with inputs and database behaviour chosen freely.  Id 0 is an id of
\* the right form that names no document.
CanCall == svc.n < MaxCalls

\* Payloads of saveChat: a username, a user's id, an id of no user, a repeated
\* participant, no participant; no, one and two initial messages.
ChatPayloads ==
    { [participants |-> <<"alice">>, messages |-> <<>>],
      [participants |-> <<"alice", "u2">>, messages |-> <<Hi, Yo>>],
      [participants |-> <<"u9">>, messages |-> <<Yo>>],
      [participants |-> <<"alice", "alice">>, messages |-> <<>>],
      [participants |-> <<>>, messages |-> <<>>] }

SaveDb(chatPayload) ==
    { [step |-> s] : s \in {"ok", "findOne", "chat", "findById"} }
    \cup { [step |-> "message", at |-> i] : i \in DOMAIN chatPayload.messages }

\* Username lists of getChatsByParticipants.
NameLists ==
    { <<"alice">>, <<"bob">>, <<"carol">>, <<"alice", "bob">>,
      <<"alice", "carol">>, <<"alice", "alice">> }

SvcSaveChat ==
    /\ CanCall
    /\ \E chatPayload \in ChatPayloads : \E db \in SaveDb(chatPayload) :
        LET r == saveChat(chats, messages, chatPayload, db)
        IN /\ chats' = r.chats
           /\ messages' = r.messages
           /\ svc' = [n |-> svc.n + 1, op |-> "saveChat", chatPayload |-> chatPayload,
                      db |-> db, result |-> r.result]
           /\ UNCHANGED server

SvcCreateMessage ==
    /\ CanCall
    /\ \E messageData \in MessageData : \E db \in {"ok", "throws", "null"} :
        LET r == createMessage(messages, messageData, db)
        IN /\ messages' = r.messages
           /\ svc' = [n |-> svc.n + 1, op |-> "createMessage",
                      messageData |-> messageData, db |-> db, result |-> r.result]
           /\ UNCHANGED <<chats, server>>

SvcAddMessageToChat ==
    /\ CanCall
    /\ \E chatId \in 0..Len(chats) : \E messageId \in 0..Len(messages) :
       \E db \in {"ok", "throws"} :
        LET r == addMessageToChat(chats, messages, chatId, messageId, db)
        IN /\ chats' = r.chats
           /\ svc' = [n |-> svc.n + 1, op |-> "addMessageToChat", chatId |-> chatId,
                      messageId |-> messageId, db |-> db, result |-> r.result]
           /\ UNCHANGED <<messages, server>>

SvcAddParticipantToChat ==
    /\ CanCall
    /\ \E chatId \in 0..Len(chats) : \E userId \in ObjectIds :
       \E db \in {"ok", "findUser", "update"} :
        LET r == addParticipantToChat(chats, messages, chatId, userId, db)
        IN /\ chats' = r.chats
           /\ svc' = [n |-> svc.n + 1, op |-> "addParticipantToChat",
                      chatId |-> chatId, userId |-> userId, db |-> db,
                      result |-> r.result]
           /\ UNCHANGED <<messages, server>>

SvcGetChatsByParticipants ==
    /\ CanCall
    /\ \E p \in NameLists : \E db \in {"ok", "throws"} :
        /\ svc' = [n |-> svc.n + 1, op |-> "getChatsByParticipants", p |-> p,
                   db |-> db,
                   result |-> getChatsByParticipants(chats, messages, p, db)]
        /\ UNCHANGED <<chats, messages, server>>

Init ==
    /\ chats = <<>>
    /\ messages = <<>>
    /\ svc = [n |-> 0, op |-> "none"]
    /\ rooms = [k \in Conns |-> {}]
    /\ inbox = [k \in Conns |-> <<>>]
    /\ reqs = <<>>
    /\ res = [n |-> 0, route |-> "none"]
    /\ selectedChat = [k \in Conns |-> NoChat]
    /\ sock = [k \in Conns |-> <<>>]
    /\ pending = [k \in Conns |-> <<>>]
    /\ hookChats = [k \in Conns |-> <<>>]
    /\ newMessage = [k \in Conns |-> ""]
    /\ lastSelect = [k \in Conns |-> [chatID |-> 0, st |-> "none"]]

NextSvc ==
    \/ SvcSaveChat
    \/ SvcCreateMessage
    \/ SvcAddMessageToChat
    \/ SvcAddParticipantToChat
    \/ SvcGetChatsByParticipants

SpecSvc == Init /\ [][NextSvc]_vars

\* The server under requests and socket events of any clients.
NextSrv ==
    \/ createChatRoute
    \/ addMessageRouteCreate
    \/ addMessageRoutePush
    \/ addMessageRouteEmit
    \/ onJoinChat
    \/ onLeaveChat
    \/ takeUpdate

SpecSrv == Init /\ [][NextSrv]_vars

\* The routes under requests of any users of the API.
NextRoutes ==
    \/ createChatRoute
    \/ addMessageRouteCreate
    \/ addMessageRoutePush
    \/ addMessageRouteEmit
    \/ addParticipantToChatRoute
    \/ getChatsByUserRoute

SpecRoutes == Init /\ [][NextRoutes]_vars

\* Clients running the hook, and other users of the routes.
Next ==
    \/ createChatRoute
    \/ addMessageRouteCreate
    \/ addMessageRoutePush
    \/ addMessageRouteEmit
    \/ getChatsByUserRoute
    \/ getChatRoute
    \/ fetchChats
    \/ fetchChatsResume
    \/ setNewMessage
    \/ handleSendMessage
    \/ handleSendMessageResume
    \/ handleChatSelect
    \/ handleChatSelectResume
    \/ serveSocket
    \/ handleChatUpdate

Spec == Init /\ [][Next]_vars

\* ------------------------------------------------------------------ service claims
Count(s, x) == Cardinality({ i \in DOMAIN s : s[i] = x })

\* The chats of the store that hold every id of ids, as documents, in store order.
ChatsHoldingAll(ids) ==
    SelectSeq([c \in DOMAIN chats |-> ChatDoc(chats, messages, c)],
              LAMBDA d : ids \subseteq Range(d.participants))

\* C5: in every reachable store, every participant of every chat is the id of
\* an existing user and every message entry is the id of a stored message.
ReferentialExistence ==
    \A c \in DOMAIN chats :
        /\ Range(chats[c].participants) \subseteq UserIds
        /\ Range(chats[c].messages) \subseteq DOMAIN messages

\* C6: getChatsByParticipants(p) returns exactly the chats whose participants
\* include every user named in p, and the empty array when a name matches no
\* user or the database fails.
GetChatsByParticipantsExact ==
    svc.op = "getChatsByParticipants" =>
        LET named == { u \in Users : u.username \in Range(svc.p) }
            allKnown == \A i \in DOMAIN svc.p : FindUserByUsername(svc.p[i]) # {}
        IN IF svc.db = "ok" /\ allKnown
           THEN svc.result = ChatsHoldingAll({ u._id : u \in named })
           ELSE svc.result = <<>>

SaveChatContract ==
    [][svc'.op = "saveChat" =>
        LET payload == svc'.chatPayload
            r == svc'.result
        IN /\ svc'.db.step \in {"message", "chat"} => IsError(r)
           /\ ~IsError(r) =>
                /\ r._id \in DOMAIN chats' \ DOMAIN chats
                /\ Len(r.messages) = Len(payload.messages)
                /\ \A i \in DOMAIN r.messages :
                      /\ r.messages[i]._id \in DOMAIN messages' \ DOMAIN messages
                      /\ messages'[r.messages[i]._id] = payload.messages[i]
                      /\ r.messages[i].msg = payload.messages[i].msg
                      /\ r.messages[i].msgFrom = payload.messages[i].msgFrom
                      /\ chats'[r._id].messages[i] = r.messages[i]._id
                /\ \A i, j \in DOMAIN r.messages :
                      i < j => r.messages[i]._id # r.messages[j]._id
                /\ Len(r.participants) = Len(payload.participants)
                /\ \A i \in DOMAIN r.participants :
                      \/ r.participants[i] = payload.participants[i]
                      \/ \E u \in Users : /\ u.username = payload.participants[i]
                                           /\ u._id = r.participants[i]
                /\ chats'[r._id].participants = r.participants]_vars

SaveChatSucceeded ==
    /\ svc.op = "saveChat"
    /\ ~IsError(svc.result)
    /\ Len(svc.chatPayload.messages) = 2
    /\ Len(svc.chatPayload.participants) = 2
    /\ svc.result._id = 2

AddParticipantExactlyOnce ==
    [][svc'.op = "addParticipantToChat" =>
        LET c == svc'.chatId
            r == svc'.result
        IN IF svc'.db = "ok" /\ svc'.userId \in UserIds /\ c \in DOMAIN chats
           THEN /\ ~IsError(r)
                /\ Count(chats'[c].participants, svc'.userId) = 1
                /\ svc'.userId \in Range(chats[c].participants) => chats' = chats
           ELSE /\ IsError(r)
                /\ chats' = chats]_vars

\* C10 as amended: as stated, except that on success userId is appended once
\* at the end if it was no participant, and the participants are unchanged if
\* it was one, however many times it was listed.
AddParticipantContract ==
    [][svc'.op = "addParticipantToChat" =>
        LET c == svc'.chatId
            r == svc'.result
        IN /\ messages' = messages
           /\ IF svc'.db = "ok" /\ svc'.userId \in UserIds /\ c \in DOMAIN chats
              THEN /\ ~IsError(r)
                   /\ r = ChatDoc(chats', messages', c)
                   /\ DOMAIN chats' = DOMAIN chats
                   /\ \A d \in DOMAIN chats : d # c => chats'[d] = chats[d]
                   /\ chats'[c].messages = chats[c].messages
                   /\ svc'.userId \in Range(chats'[c].participants)
                   /\ IF svc'.userId \in Range(chats[c].participants)
                      THEN chats'[c].participants = chats[c].participants
                      ELSE chats'[c].participants
                             = Append(chats[c].participants, svc'.userId)
              ELSE /\ IsError(r)
                   /\ chats' = chats]_vars

AddParticipantAgain ==
    /\ svc.op = "addParticipantToChat"
    /\ ~IsError(svc.result)
    /\ Len(chats[svc.chatId].participants) >= 2
    /\ chats[svc.chatId].participants[1] = svc.userId

\* ------------------------------------------------------------------ controller claims
Last(s) == s[Len(s)]

\* The step sends a response of the route with the status.
Responds(route, status) ==
    /\ res'.n # res.n
    /\ res'.route = route
    /\ res'.status = status

\* C1: when an addMessage request for chat c responds 200, every connection
\* in room c at that moment is sent exactly one 'chatUpdate' of type
\* 'newMessage' whose chat is c and whose messages end with the message the
\* request created.
NewMessageReachesRoom ==
    [][Responds("addMessage", 200) =>
        \E i \in DOMAIN reqs :
            /\ reqs' = Remove(reqs, i)
            /\ reqs[i].pc = "populateDocument"
            /\ res'.body._id = reqs[i].chatId
            /\ \A k \in Conns :
                 reqs[i].chatId \in rooms[k] =>
                    /\ Len(inbox'[k]) = Len(inbox[k]) + 1
                    /\ SubSeq(inbox'[k], 1, Len(inbox[k])) = inbox[k]
                    /\ Last(inbox'[k]).type = "newMessage"
                    /\ Last(inbox'[k]).chat._id = reqs[i].chatId
                    /\ Last(inbox'[k]).chat.messages # <<>>
                    /\ Last(Last(inbox'[k]).chat.messages)._id = reqs[i].messageId]_vars

NewMessageSentToRoom ==
    /\ res.route = "addMessage"
    /\ res.status = 200
    /\ \A k \in Conns :
         /\ res.body._id \in rooms[k]
         /\ inbox[k] # <<>>
         /\ Last(inbox[k]) = [chat |-> res.body, type |-> "newMessage"]

\* C2: a connection is sent a 'chatUpdate' of type 'newMessage' for chat c
\* only while it is in room c.
NewMessageOnlyToRoom ==
    [][\A k \in Conns :
        (Len(inbox'[k]) > Len(inbox[k]) /\ Last(inbox'[k]).type = "newMessage")
            => Last(inbox'[k]).chat._id \in rooms[k]]_vars

NewMessageSkipsOthers ==
    /\ res.route = "addMessage"
    /\ res.status = 200
    /\ res.body._id \in rooms["k1"]
    /\ inbox["k1"] # <<>>
    /\ Last(inbox["k1"]).type = "newMessage"
    /\ res.body._id \notin rooms["k2"]
    /\ rooms["k2"] # {}
    /\ inbox["k2"] = <<>>

\* C3: when a createChat request responds 200, the body is the new chat,
\* populated, and every connection, whatever its rooms, is sent exactly one
\* 'chatUpdate' of type 'created' carrying that same chat.
CreatedReachesEveryone ==
    [][Responds("createChat", 200) =>
        /\ Len(chats') = Len(chats) + 1
        /\ res'.body = ChatDoc(chats', messages', Len(chats'))
        /\ \A k \in Conns :
             inbox'[k] = Append(inbox[k], [chat |-> res'.body, type |-> "created"])]_vars

CreatedSentToEveryone ==
    /\ res.route = "createChat"
    /\ res.status = 200
    /\ rooms["k1"] = {1}
    /\ rooms["k2"] = {}
    /\ \A k \in Conns :
         /\ inbox[k] # <<>>
         /\ Last(inbox[k]) = [chat |-> res.body, type |-> "created"]
    /\ res.body._id = 2

\* What the claims call a request that fails validation.
FailsValidation(route, req) ==
    CASE route = "createChat" ->
            \/ "participants" \notin DOMAIN req.body
            \/ req.body.participants = <<>>
            \/ "messages" \notin DOMAIN req.body
      [] route = "addMessage" ->
            \/ "msg" \notin DOMAIN req.body
            \/ req.body.msg = ""
            \/ "msgFrom" \notin DOMAIN req.body
            \/ "chatId" \notin DOMAIN req.params
      [] route = "addParticipant" ->
            \/ "participantId" \notin DOMAIN req.body
            \/ "chatId" \notin DOMAIN req.params

ChatsByUserAllOrNothing ==
    [][(res'.n = res.n + 1 /\ res'.route = "getChatsByUser" /\ res'.status # 400) =>
        /\ "username" \in DOMAIN res'.req.params
        /\ chats' = chats
        /\ messages' = messages
        /\ \E db \in {"ok", "throws"} :
             LET found == getChatsByParticipants(chats, messages,
                                                 <<res'.req.params.username>>, db)
             IN \/ /\ res'.status = 200
                   /\ Len(res'.body) = Len(found)
                   /\ \A i \in DOMAIN found :
                         res'.body[i] = ChatDoc(chats, messages, found[i]._id)
                \/ /\ res'.status = 500
                   /\ found # <<>>
                   /\ IsError(res'.body)]_vars

ChatsByUserFailedOnOneOfTwo ==
    /\ res.n = 3
    /\ res.route = "getChatsByUser"
    /\ res.status = 500
    /\ res.req.params.username = "alice"
    /\ Len(chats) = 2

\* C18: whatever the interleaving of the addMessage requests, the requests
\* under way carry message ids of their own, a step only ever extends the
\* messages of a chat at their end, no chat lists an id twice, and on the
\* step that answers a request 200 the chat lists the id of the message the
\* request created exactly once: so the ids of all the requests answered 200
\* are in the chat once each, after the messages it held before.
NoAddedMessageLost ==
    [][/\ \A c \in DOMAIN chats :
            /\ c \in DOMAIN chats'
            /\ Len(chats'[c].messages) >= Len(chats[c].messages)
            /\ SubSeq(chats'[c].messages, 1, Len(chats[c].messages)) = chats[c].messages
       /\ \A c \in DOMAIN chats' : \A m \in Range(chats'[c].messages) :
            Count(chats'[c].messages, m) = 1
       /\ \A i, j \in DOMAIN reqs' : i # j => reqs'[i].messageId # reqs'[j].messageId
       /\ Responds("addMessage", 200) =>
            \E i \in DOMAIN reqs :
                /\ reqs' = Remove(reqs, i)
                /\ reqs[i].chatId \in DOMAIN chats'
                /\ Count(chats'[reqs[i].chatId].messages, reqs[i].messageId) = 1]_vars

\* Two requests to chat 1 were under way together, the second one updating
\* the chat first, and the chat holds both messages.
BothMessagesKept ==
    /\ res.n = 3
    /\ res.route = "addMessage"
    /\ res.status = 200
    /\ reqs = <<>>
    /\ Len(chats) = 1
    /\ chats[1].messages = <<2, 1>>
    /\ Len(res.body.messages) = 2

\* ------------------------------------------------------------------ client claims
\* Nothing is on its way: no request, no socket event, no update.
Quiescent ==
    /\ reqs = <<>>
    /\ \A k \in Conns : pending[k] = <<>> /\ sock[k] = <<>> /\ inbox[k] = <<>>

\* The calls of op at client k that are in state st.
CallsIn(pend, k, op, st) ==
    { i \in DOMAIN pend[k] : pend[k][i].op = op /\ pend[k][i].st = st }

\* C13: a sendMessage call goes out only when newMessage has more than
\* whitespace and a chat with an _id is selected, for that chat and with
\* that text, and leaves the hook's state as it is; when a call that
\* succeeded is taken up, selectedChat becomes the chat the server returned
\* and newMessage ''; when a call that failed is taken up, both stay.
SendMessageContract ==
    [][\A k \in Hooks :
        /\ (Len(pending'[k]) = Len(pending[k]) + 1
             /\ Last(pending'[k]).op = "sendMessage") =>
                /\ newMessage[k] \notin {"", " "}
                /\ HasId(selectedChat[k])
                /\ Last(pending'[k]).st = "sent"
                /\ Last(pending'[k]).req.params.chatId = selectedChat[k]._id
                /\ Last(pending'[k]).req.body.msg = newMessage[k]
                /\ UNCHANGED hook
        /\ (res'.n = res.n + 1 /\ res'.route = "addMessage") =>
                \A i \in DOMAIN pending[k] :
                    pending'[k][i] # pending[k][i] =>
                        IF res'.status = 200
                        THEN /\ pending'[k][i].st = "fetched"
                             /\ pending'[k][i].chat = res'.body
                        ELSE pending'[k][i].st = "failed"
        /\ Cardinality(CallsIn(pending', k, "sendMessage", "fetched"))
              < Cardinality(CallsIn(pending, k, "sendMessage", "fetched")) =>
                /\ \E i \in CallsIn(pending, k, "sendMessage", "fetched") :
                      selectedChat'[k] = pending[k][i].chat
                /\ newMessage'[k] = ""
                /\ hookChats'[k] = hookChats[k]
        /\ Cardinality(CallsIn(pending', k, "sendMessage", "failed"))
              < Cardinality(CallsIn(pending, k, "sendMessage", "failed")) =>
                /\ selectedChat'[k] = selectedChat[k]
                /\ newMessage'[k] = newMessage[k]
                /\ hookChats'[k] = hookChats[k]]_vars

MessageSentAndBoxEmptied ==
    /\ pending["k1"] = <<>>
    /\ newMessage["k1"] = ""
    /\ HasId(selectedChat["k1"])
    /\ selectedChat["k1"].messages # <<>>
    /\ Last(selectedChat["k1"].messages).msgFrom = UserOf["k1"]
    /\ res.route = "addMessage"
    /\ res.status = 200
    /\ res.body = selectedChat["k1"]

\* Client k handles the oldest 'chatUpdate' sent to it, of the type.
Handles(k, type) ==
    /\ inbox[k] # <<>>
    /\ inbox'[k] = Tail(inbox[k])
    /\ Head(inbox[k]).type = type

\* C14: when a client handles a 'chatUpdate' of type 'created', its list of
\* chats is unchanged if a chat of the list has the _id of the event's chat,
\* and else is the list with that chat added at the end; selectedChat is
\* unchanged.
CreatedAppendsOnce ==
    [][\A k \in Hooks :
        Handles(k, "created") =>
            LET chat == Head(inbox[k]).chat
            IN /\ IF chat._id \in { hookChats[k][j]._id : j \in DOMAIN hookChats[k] }
                  THEN hookChats'[k] = hookChats[k]
                  ELSE /\ Len(hookChats'[k]) = Len(hookChats[k]) + 1
                       /\ SubSeq(hookChats'[k], 1, Len(hookChats[k])) = hookChats[k]
                       /\ Last(hookChats'[k]) = chat
               /\ selectedChat'[k] = selectedChat[k]]_vars

\* Two chats were created and nothing else was requested: the list holds
\* them from the two events.
CreatedChatsListed ==
    /\ res.n = 2
    /\ Len(chats) = 2
    /\ pending["k1"] = <<>>
    /\ inbox["k1"] = <<>>
    /\ Len(hookChats["k1"]) = 2
    /\ hookChats["k1"][1]._id = 1
    /\ hookChats["k1"][2]._id = 2

\* The case of C14 in which the list has the chat: it was fetched while the
\* event was on its way.
CreatedChatAlreadyListed ==
    /\ inbox["k1"] # <<>>
    /\ Head(inbox["k1"]).type = "created"
    /\ hookChats["k1"] # <<>>
    /\ Head(inbox["k1"]).chat._id = hookChats["k1"][1]._id

\* C15: when a client handles a 'chatUpdate' of type 'newMessage' for chat
\* c, selectedChat becomes c if the selected chat has c's _id and is unchanged
\* if not; the list of chats keeps its length and order, with c in the place
\* of each entry that has c's _id, so that a chat the list lacks is not added.
NewMessageReplacesInPlace ==
    [][\A k \in Hooks :
        Handles(k, "newMessage") =>
            LET c == Head(inbox[k]).chat
            IN /\ IF HasId(selectedChat[k]) /\ selectedChat[k]._id = c._id
                  THEN selectedChat'[k] = c
                  ELSE selectedChat'[k] = selectedChat[k]
               /\ Len(hookChats'[k]) = Len(hookChats[k])
               /\ \A j \in DOMAIN hookChats[k] :
                     IF hookChats[k][j]._id = c._id
                     THEN hookChats'[k][j] = c
                     ELSE hookChats'[k][j] = hookChats[k][j]]_vars

\* The selected chat and its entry in the list hold a message that only the
\* event can have brought: the three requests made were the creation of the
\* chat, its fetch and the addMessage of another user.
NewMessageTakenUp ==
    /\ res.n = 3
    /\ inbox["k1"] = <<>>
    /\ HasId(selectedChat["k1"])
    /\ selectedChat["k1"].messages # <<>>
    /\ hookChats["k1"] = <<selectedChat["k1"]>>

\* The case of C15 in which the list lacks the chat of the event.
NewMessageForUnlistedChat ==
    /\ inbox["k1"] # <<>>
    /\ Head(inbox["k1"]).type = "newMessage"
    /\ hookChats["k1"] = <<>>

\* A call of op that had ended in st is taken up by client k.
TakesUp(k, op, st) ==
    Cardinality(CallsIn(pending', k, op, st)) < Cardinality(CallsIn(pending, k, op, st))

\* C16: a getChatById call goes out only for a chatID that is defined, and
\* leaves selectedChat and the socket alone; the chat of a call that succeeded
\* is the body of the 200 response; when such a call is taken up, selectedChat
\* becomes its chat and 'joinChat' with its chatID is emitted; when a call
\* that failed is taken up, selectedChat stays and nothing is emitted; and
\* when the server handles a 'joinChat' of a connection, the connection is
\* in the room of that chatID.
ChatSelectContract ==
    [][\A k \in Hooks :
        /\ (Len(pending'[k]) = Len(pending[k]) + 1
             /\ Last(pending'[k]).op = "getChatById") =>
                /\ Last(pending'[k]).chatID \in RoomIds
                /\ Last(pending'[k]).st = "sent"
                /\ UNCHANGED <<selectedChat, hookChats, newMessage, sock, rooms>>
        /\ (res'.n = res.n + 1 /\ res'.route = "getChat") =>
                \A i \in DOMAIN pending[k] :
                    pending'[k][i] # pending[k][i] =>
                        /\ pending'[k][i].chatID = pending[k][i].chatID
                        /\ IF res'.status = 200
                           THEN /\ pending'[k][i].st = "fetched"
                                /\ pending'[k][i].chat = res'.body
                                /\ res'.body._id = pending[k][i].chatID
                           ELSE pending'[k][i].st = "failed"
        /\ TakesUp(k, "getChatById", "fetched") =>
                \E i \in CallsIn(pending, k, "getChatById", "fetched") :
                    /\ selectedChat'[k] = pending[k][i].chat
                    /\ Len(sock'[k]) > Len(sock[k])
                    /\ SubSeq(sock'[k], 1, Len(sock[k])) = sock[k]
                    /\ sock'[k][Len(sock[k]) + 1]
                          = [ev |-> "joinChat", arg |-> [chatId |-> pending[k][i].chatID]]
                    /\ \A j \in DOMAIN sock'[k] :
                          j > Len(sock[k]) + 1 => sock'[k][j].ev # "joinChat"
        /\ TakesUp(k, "getChatById", "failed") =>
                /\ selectedChat'[k] = selectedChat[k]
                /\ sock'[k] = sock[k]
        /\ (sock[k] # <<>> /\ sock'[k] = Tail(sock[k]) /\ Head(sock[k]).ev = "joinChat") =>
                Head(sock[k]).arg.chatId \in rooms'[k]]_vars

SelectedAndJoined ==
    /\ HasId(selectedChat["k1"])
    /\ selectedChat["k1"]._id = 2
    /\ lastSelect["k1"] = [chatID |-> 2, st |-> "selected"]
    /\ sock["k1"] = <<>>
    /\ rooms["k1"] = {2}

\* C17: once the chat of the client's latest handleChatSelect call is in
\* selectedChat, taking up the response of an earlier call does not put
\* another chat there.
LastSelectionWins ==
    [][\A k \in Hooks :
        ( /\ lastSelect[k].st = "selected"
          /\ HasId(selectedChat[k])
          /\ selectedChat[k]._id = lastSelect[k].chatID
          /\ TakesUp(k, "getChatById", "fetched") )
        => selectedChat'[k]._id = lastSelect[k].chatID]_vars

\* C4: a client that has selected chat c comes to hold in selectedChat every
\* message successfully added to c: once nothing is on its way any more, the
\* message of the last successful addMessage to c is among selectedChat's.
SelectedChatHoldsAddedMessage ==
    \A k \in Conns :
        ( /\ Quiescent
          /\ HasId(selectedChat[k])
          /\ selectedChat[k]._id \in rooms[k]
          /\ res.route = "addMessage"
          /\ res.status = 200
          /\ res.body._id = selectedChat[k]._id )
        => Last(res.body.messages) \in Range(selectedChat[k].messages)

====
